---- MODULE Spec2Model ----
(***************************************************************************)
(* State-machine model of node_prov.py: the node-token housekeeping        *)
(* (token / have_token / attached), the Application / Element / Model      *)
(* registry, the D-Bus callbacks of the mesh daemon, and ModTimer, whose   *)
(* ticks run on threading.Timer threads beside the GLib main loop.         *)
(***************************************************************************)
EXTENDS Integers, Sequences, FiniteSets, TLC

\* ------------------------------------------------------------------------
\* Bounds of the model
\* ------------------------------------------------------------------------
\* threading.Timer objects alive at once (waiting or running a tick)
MaxTimers == 2
\* Attach calls awaiting their reply
MaxInFlight == 1
\* entries of the element configuration array of an attach reply
MaxEls == 2
\* elements an application registers, and models they hold altogether
MaxRegistered == 2
MaxModels == 2

\* ------------------------------------------------------------------------
\* Program constants and Python's None
\* ------------------------------------------------------------------------
VENDOR_ID_NONE == 65535
MYVENDOR_ID == 1521
\* self.thread = None: Timer objects are numbered 1..MaxTimers
NoThread == 0
\* self.seconds = None
NoSeconds == 0
\* token = None: a held token is a non-empty digit sequence
NoToken == << >>
\* len(str_value) != 16
TokenLen == 16

\* ------------------------------------------------------------------------
\* Strings are sequences of one-character strings
\* ------------------------------------------------------------------------
Rep(c, n) == [i \in 1..n |-> c]

HexChars == {"0", "1", "2", "3", "4", "5", "6", "7", "8", "9",
             "a", "b", "c", "d", "e", "f", "A", "B", "C", "D", "E", "F"}

DigitVal(c) ==
  CASE c = "0" -> 0 [] c = "1" -> 1 [] c = "2" -> 2 [] c = "3" -> 3
    [] c = "4" -> 4 [] c = "5" -> 5 [] c = "6" -> 6 [] c = "7" -> 7
    [] c = "8" -> 8 [] c = "9" -> 9
    [] c \in {"a", "A"} -> 10 [] c \in {"b", "B"} -> 11
    [] c \in {"c", "C"} -> 12 [] c \in {"d", "D"} -> 13
    [] c \in {"e", "E"} -> 14 [] c \in {"f", "F"} -> 15

\* str.strip() as int() applies it: leading and trailing whitespace dropped
RECURSIVE LStrip(_)
LStrip(s) == IF s # << >> /\ Head(s) = " " THEN LStrip(Tail(s)) ELSE s

RECURSIVE RStrip(_)
RStrip(s) ==
  IF s # << >> /\ s[Len(s)] = " " THEN RStrip(SubSeq(s, 1, Len(s) - 1)) ELSE s

\* a 64-bit value is kept as its hexadecimal digits without leading zeros
RECURSIVE Normalize(_)
Normalize(ds) ==
  IF Len(ds) > 1 /\ Head(ds) = 0 THEN Normalize(Tail(ds)) ELSE ds

\* int(str_value, 16): optional whitespace, sign, 0x prefix, then hex digits
\* in which single underscores may separate digits.
\* Result: [ok |-> FALSE] (ValueError) or [ok |-> TRUE, neg, digits].
ParseHex(str_value) ==
  LET s1     == RStrip(LStrip(str_value))
      signed == s1 # << >> /\ Head(s1) \in {"+", "-"}
      neg    == s1 # << >> /\ Head(s1) = "-"
      s2     == IF signed THEN Tail(s1) ELSE s1
      pref   == Len(s2) >= 2 /\ s2[1] = "0" /\ s2[2] \in {"x", "X"}
      s3     == IF pref THEN SubSeq(s2, 3, Len(s2)) ELSE s2
      \* after a prefix one underscore may precede the first digit
      s4     == IF pref /\ s3 # << >> /\ Head(s3) = "_" THEN Tail(s3) ELSE s3
      wellformed ==
        /\ s4 # << >>
        /\ \A i \in 1..Len(s4) : s4[i] \in HexChars \cup {"_"}
        /\ s4[1] # "_" /\ s4[Len(s4)] # "_"
        /\ \A i \in 1..(Len(s4) - 1) : ~(s4[i] = "_" /\ s4[i + 1] = "_")
      ds     == SelectSeq(s4, LAMBDA c : c # "_")
  IN  IF wellformed
        THEN [ok |-> TRUE, neg |-> neg,
              digits |-> Normalize([i \in 1..Len(ds) |-> DigitVal(ds[i])])]
        ELSE [ok |-> FALSE, neg |-> FALSE, digits |-> << >>]

\* ------------------------------------------------------------------------
\* Input domains
\* ------------------------------------------------------------------------
\* publication periods in ms; those >= 1000 are multiples of 1000, on which
\* period/1000 is exact
PublicationPeriods == {0, 500, 2000}
BindingLists == {<<0>>}
SubscriptionLists == {<< >>}
\* element index bytes and model ids a configuration may name
ElementBytes == {0, 1}
ModelIds == {1, 2}
\* what open('scan.txt') and the parse of its lines yield: no file, no lines,
\* or lines that name a device.  (Lines that name none act as "found" when
\* scanned already holds a device and as "empty" when it holds none.)
ScanOutcomes == {"missing", "empty", "found"}
\* values the daemon may pass to JoinComplete (hex digits of a uint64)
JoinTokens == {<<1>>, <<1, 0>>}

\* token strings typed by the operator or given as sys.argv[1]
TokenStrings ==
  { Rep("0", 15) \o <<"1">>,
    Rep("0", 14) \o <<"1", "0">> }

\* strings the operator may type for the menu operation "token": the two
\* above, strings of 15 and 17 digits, the empty string, and strings of 16
\* characters that are not 16 hex digits
TypedStrings ==
  TokenStrings \cup
  { << >>,
    Rep("0", 14) \o <<"1">>,
    Rep("0", 16) \o <<"1">>,
    Rep("0", 15) \o <<"g">>,
    <<"0", "x">> \o Rep("0", 13) \o <<"1">>,
    <<"-">> \o Rep("0", 14) \o <<"1">>,
    <<" ">> \o Rep("0", 14) \o <<"1">>,
    Rep("0", 7) \o <<"_">> \o Rep("0", 7) \o <<"1">> }

\* a configuration dictionary is a function whose domain is the keys present
ConfigKeys == {"Bindings", "PublicationPeriod", "Subscriptions"}
\* an optional value: << >> for a key that is absent, <<v>> for one present
Optional(S) == {<< >>} \cup {<<v>> : v \in S}
Config(b, p, s) ==
  [k \in {x \in ConfigKeys : \/ x = "Bindings" /\ b # << >>
                             \/ x = "PublicationPeriod" /\ p # << >>
                             \/ x = "Subscriptions" /\ s # << >>} |->
     CASE k = "Bindings" -> b[1]
       [] k = "PublicationPeriod" -> p[1]
       [] k = "Subscriptions" -> s[1]]
Configs ==
  {Config(b, p, s) : b \in Optional(BindingLists),
                     p \in Optional(PublicationPeriods),
                     s \in Optional(SubscriptionLists)}

\* scan.txt is opened only for a period of at least 1000 ms
ScansFor(config) ==
  IF "PublicationPeriod" \in DOMAIN config /\ config["PublicationPeriod"] >= 1000
    THEN ScanOutcomes
    ELSE {"empty"}

\* ------------------------------------------------------------------------
\* Objects
\* ------------------------------------------------------------------------
ModTimer_init ==
  [seconds |-> NoSeconds, func |-> "None", thread |-> NoThread, busy |-> FALSE]

Model_init(model_id) ==
  [cls |-> "Model", cmd_ops |-> {}, model_id |-> model_id,
   vendor |-> VENDOR_ID_NONE, bindings |-> << >>, pub_period |-> 0,
   pub_id |-> 0, timer |-> NoThread]

MyVendor_init(model_id) ==
  [cls |-> "MyVendor", cmd_ops |-> {33281, 33282, 33283, 33284},
   model_id |-> model_id, vendor |-> MYVENDOR_ID, bindings |-> << >>,
   pub_period |-> 0, pub_id |-> 0, timer |-> NoThread,
   state |-> "0", pub_timer |-> ModTimer_init, t_timer |-> ModTimer_init]

Element_init(index) == [index |-> index, models |-> << >>]

add_model(element, model) ==
  [element EXCEPT !.models = Append(element.models, model)]

add_element(elements, element) == Append(elements, element)

\* what an application may register: element indices and models
ElementIndices == {0, 1}
RegistryModels == {Model_init(1), Model_init(2), MyVendor_init(1)}

\* a threading.Timer object: free (none / finished), waiting for its interval,
\* or at a line of ModTimer._timeout_cb
FreeTimer == [pc |-> "free", interval |-> NoSeconds, el |-> 0, mod |-> 0]
TimerIds == 1..MaxTimers

\* ------------------------------------------------------------------------
\* Handlers run to completion; their code is a function on the part of the
\* state they can touch, w = [elements, timers, mainloop, scanned, exc,
\* stuck].  exc is the exception that left the handler ("none" if it
\* returned), stuck marks a run that would need more than MaxTimers Timer
\* objects.
\* ------------------------------------------------------------------------
Raised(w) == w.exc # "none"

ModelAt(w, e, m) == w.elements[e].models[m]

\* some ModTimer (or Model.timer) still refers to Timer object t
Referenced(w, t) ==
  \E e \in 1..Len(w.elements) : \E m \in 1..Len(w.elements[e].models) :
    LET model == ModelAt(w, e, m) IN
      \/ model.timer = t
      \/ /\ model.cls = "MyVendor"
         /\ (model.pub_timer.thread = t \/ model.t_timer.thread = t)

FreeSlots(w) == {t \in TimerIds : w.timers[t].pc = "free" /\ ~Referenced(w, t)}

Min(S) == CHOOSE x \in S : \A y \in S : x <= y

\* ModTimer._schedule_timer of the pub_timer of model m of element e
ModTimer_schedule_timer(w, e, m) ==
  IF FreeSlots(w) = {}
    THEN [w EXCEPT !.stuck = TRUE]
    ELSE LET t == Min(FreeSlots(w)) IN
         [w EXCEPT
            !.timers[t] = [pc |-> "wait",
                           interval |-> ModelAt(w, e, m).pub_timer.seconds,
                           el |-> e, mod |-> m],
            !.elements[e].models[m].pub_timer.thread = t]

\* ModTimer.start without the call of _schedule_timer
ModTimer_start_unscheduled(w, e, m, seconds, func) ==
  [w EXCEPT !.elements[e].models[m].pub_timer.func = func,
            !.elements[e].models[m].pub_timer.seconds = seconds]

\* ModTimer.start
ModTimer_start(w, e, m, seconds, func) ==
  LET w1 == [w EXCEPT !.elements[e].models[m].pub_timer.func = func,
                      !.elements[e].models[m].pub_timer.seconds = seconds]
  IN  IF ~ModelAt(w1, e, m).pub_timer.busy
        THEN ModTimer_schedule_timer(w1, e, m)
        ELSE w1

\* threading.Timer.cancel: a Timer still waiting never calls its function,
\* one already past its wait is not affected
Timer_cancel(timers, t) ==
  IF timers[t].pc = "wait" THEN [timers EXCEPT ![t] = FreeTimer] ELSE timers

\* ModTimer.cancel
ModTimer_cancel(w, e, m) ==
  LET t == ModelAt(w, e, m).pub_timer.thread IN
    IF t # NoThread
      THEN [w EXCEPT !.timers = Timer_cancel(w.timers, t),
                     !.elements[e].models[m].pub_timer.thread = NoThread]
      ELSE w

\* Model.set_publication
Model_set_publication(w, e, m, period) ==
  [w EXCEPT !.elements[e].models[m].pub_period = period]

\* MyVendor.set_publication cancelling the ModTimer for every period below
\* 1000, not only for 0
MyVendor_set_publication_cancelling(w, e, m, period, scan) ==
  LET w1 == [w EXCEPT !.elements[e].models[m].pub_period = period]
      scanned1 == w1.scanned \/ scan = "found"
      w2 == [w1 EXCEPT !.scanned = scanned1]
  IN  IF period < 1000 THEN ModTimer_cancel(w1, e, m)
      ELSE IF scan = "missing" THEN [w1 EXCEPT !.exc = "FileNotFoundError"]
      ELSE IF scan = "empty" THEN [w1 EXCEPT !.mainloop = "quit"]
      ELSE IF ~scanned1 THEN [w2 EXCEPT !.mainloop = "quit"]
      ELSE ModTimer_start(
             [w2 EXCEPT !.elements[e].models[m].state = "json"],
             e, m, period \div 1000, "publish")

\* MyVendor.set_publication; scan is what reading scan.txt yields
MyVendor_set_publication(w, e, m, period, scan) ==
  LET w1 == [w EXCEPT !.elements[e].models[m].pub_period = period]
      scanned1 == w1.scanned \/ scan = "found"
      w2 == [w1 EXCEPT !.scanned = scanned1]
  IN  IF period = 0 THEN ModTimer_cancel(w1, e, m)
      ELSE IF period < 1000 THEN w1
      ELSE IF scan = "missing" THEN [w1 EXCEPT !.exc = "FileNotFoundError"]
      ELSE IF scan = "empty" THEN [w1 EXCEPT !.mainloop = "quit"]
      ELSE IF ~scanned1 THEN [w2 EXCEPT !.mainloop = "quit"]
      ELSE ModTimer_start(
             [w2 EXCEPT !.elements[e].models[m].state = "json"],
             e, m, period \div 1000, "publish")

set_publication(w, e, m, period, scan) ==
  IF ModelAt(w, e, m).cls = "MyVendor"
    THEN MyVendor_set_publication(w, e, m, period, scan)
    ELSE Model_set_publication(w, e, m, period)

\* set_config replacing the whole configuration: bindings absent from the
\* update are cleared
set_config_wholesale(w, e, m, config, scan) ==
  LET w1 == [w EXCEPT !.elements[e].models[m].bindings =
                        IF "Bindings" \in DOMAIN config
                          THEN config["Bindings"] ELSE << >>]
  IN  IF "PublicationPeriod" \in DOMAIN config
        THEN set_publication(w1, e, m, config["PublicationPeriod"], scan)
        ELSE w1

\* Model.set_config
set_config(w, e, m, config, scan) ==
  LET w1 == IF "Bindings" \in DOMAIN config
              THEN [w EXCEPT !.elements[e].models[m].bindings = config["Bindings"]]
              ELSE w
      w2 == IF "PublicationPeriod" \in DOMAIN config
              THEN set_publication(w1, e, m, config["PublicationPeriod"], scan)
              ELSE w1
  IN  \* the Subscriptions entry is printed, nothing is stored
      w2

\* Element.update_model_config: the first model whose id matches
\* update_model_config without the return: every model with the id is
\* configured
RECURSIVE update_models_from(_, _, _, _, _, _)
update_models_from(w, e, k, model_id, config, scan) ==
  IF k > Len(w.elements[e].models) \/ Raised(w) THEN w
  ELSE update_models_from(
         IF ModelAt(w, e, k).model_id = model_id
           THEN set_config(w, e, k, config, scan) ELSE w,
         e, k + 1, model_id, config, scan)

update_model_config_all(w, e, model_id, config, scan) ==
  update_models_from(w, e, 1, model_id, config, scan)

update_model_config(w, e, model_id, config, scan) ==
  LET hits == {m \in 1..Len(w.elements[e].models) :
                 ModelAt(w, e, m).model_id = model_id}
  IN  IF hits = {} THEN w ELSE set_config(w, e, Min(hits), config, scan)

\* Element.set_model_config: configs is a sequence of <<mod_id, config>>
RECURSIVE set_model_config(_, _, _, _)
set_model_config(w, e, configs, scan) ==
  IF configs = << >> \/ Raised(w) THEN w
  ELSE set_model_config(
         update_model_config(w, e, Head(configs)[1], Head(configs)[2], scan),
         e, Tail(configs), scan)

\* struct.unpack('b', byte): a signed char
unpack_b(byte) == IF byte < 128 THEN byte ELSE byte - 256

\* Application.get_element: position of the first element with that index,
\* 0 for the None that falling off the loop returns
get_element(elements, idx) ==
  LET hits == {e \in 1..Len(elements) : elements[e].index = idx}
  IN  IF hits = {} THEN 0 ELSE Min(hits)

\* the loop of attach_app_cb over els, a sequence of <<byte, models>>
RECURSIVE apply_els(_, _, _)
apply_els(w, els, scan) ==
  IF els = << >> \/ Raised(w) THEN w
  ELSE LET idx     == unpack_b(Head(els)[1])
           models  == Head(els)[2]
           element == get_element(w.elements, idx)
       IN  IF element = 0
             THEN [w EXCEPT !.exc = "AttributeError"]
             ELSE apply_els(set_model_config(w, element, models, scan),
                            Tail(els), scan)

\* the cancel loop of app_exit: Model.timer is the only field it looks at
RECURSIVE cancel_model_timers(_, _)
cancel_model_timers(timers, models) ==
  IF models = << >> THEN timers
  ELSE cancel_model_timers(
         IF Head(models).timer # NoThread
           THEN Timer_cancel(timers, Head(models).timer)
           ELSE timers,
         Tail(models))

RECURSIVE cancel_element_timers(_, _)
cancel_element_timers(timers, elements) ==
  IF elements = << >> THEN timers
  ELSE cancel_element_timers(cancel_model_timers(timers, Head(elements).models),
                             Tail(elements))

\* ------------------------------------------------------------------------
\* Element.MessageReceived
\* ------------------------------------------------------------------------
\* Model.process_message returns at once, MyVendor.process_message prints
\* and returns: neither raises
process_message(model) == "none"

\* the loop delivering to the first model only
MessageReceived_first(models) ==
  IF models = << >> THEN << >> ELSE <<1>>

\* the loop over self.models from position k on: the positions of the
\* models whose process_message is called, in the order of the calls
RECURSIVE MessageReceived_from(_, _)
MessageReceived_from(models, k) ==
  IF k > Len(models) THEN << >>
  ELSE IF process_message(models[k]) # "none" THEN <<k>>
  ELSE <<k>> \o MessageReceived_from(models, k + 1)

MessageReceived_loop(models) == MessageReceived_from(models, 1)

\* ------------------------------------------------------------------------
\* set_token
\* ------------------------------------------------------------------------
\* two's complement of a digit sequence in 64 bits (16 hex digits)
Pad16(ds) == Rep(0, TokenLen - Len(ds)) \o ds

RECURSIVE AddOne(_)
AddOne(ds) ==
  IF ds = << >> THEN << >>
  ELSE LET n == Len(ds) IN
       IF ds[n] < 15 THEN [ds EXCEPT ![n] = ds[n] + 1]
       ELSE Append(AddOne(SubSeq(ds, 1, n - 1)), 0)

Wrap64(ds) ==
  LET p == Pad16(ds) IN Normalize(AddOne([i \in 1..Len(p) |-> 15 - p[i]]))

\* set_token without the test of len(str_value)
set_token_any_length(g, str_value) ==
  LET r == ParseHex(str_value)
  IN  IF ~r.ok THEN {[g EXCEPT !.input_error = TRUE]}
      ELSE IF r.neg /\ r.digits # <<0>>
        THEN { [g EXCEPT !.exc = "OverflowError"],
               [g EXCEPT !.token = Wrap64(r.digits), !.have_token = TRUE] }
        ELSE { [g EXCEPT !.token = r.digits, !.have_token = TRUE] }

\* The outcomes of set_token(str_value) from the globals g = [token,
\* have_token, input_error]; exc is the exception that escapes.
\* numpy.uint64 of a negative int raises OverflowError or wraps modulo 2^64,
\* depending on the numpy release.
set_token(g, str_value) ==
  LET r == ParseHex(str_value)
      err == [g EXCEPT !.input_error = TRUE]
  IN  IF Len(str_value) # TokenLen THEN {err}
      ELSE IF ~r.ok THEN {err}
      ELSE IF r.neg /\ r.digits # <<0>>
        THEN { [g EXCEPT !.exc = "OverflowError"],
               [g EXCEPT !.token = Wrap64(r.digits), !.have_token = TRUE] }
        ELSE { [g EXCEPT !.token = r.digits, !.have_token = TRUE] }

\* ------------------------------------------------------------------------
\* State
\* ------------------------------------------------------------------------
VARIABLES
  token,         \* global token (NoToken for None)
  have_token,    \* global have_token
  attached,      \* global attached
  input_error,   \* global input_error
  node,          \* global node: "None" or the node interface
  mainloop,      \* "None", "running", "quit", or "exited" (main returned)
  elements,      \* app.elements with their models
  timers,        \* the threading.Timer objects
  scanned,       \* whether the global dict scanned is non-empty
  attach_calls,  \* tokens of the Attach calls whose reply is outstanding
  join,          \* the Join call of main: "called" until the daemon has
                 \* answered it, then "idle"
  exc,           \* the exception that escaped the handler the main thread
                 \* ran last, "none" if it returned
  user_input,    \* the string the operator has typed for the menu operation
                 \* "token" and set_token has not been given yet: << >> or
                 \* <<string>>
  processed      \* the last MessageReceived: the element it was sent to and
                 \* the models whose process_message it called, in order

vars == <<token, have_token, attached, input_error, node, mainloop, elements,
          timers, scanned, attach_calls, join, exc, user_input, processed>>

World == [elements |-> elements, timers |-> timers, mainloop |-> mainloop,
          scanned |-> scanned, exc |-> "none", stuck |-> FALSE]

Globals == [token |-> token, have_token |-> have_token,
            input_error |-> input_error, exc |-> "none"]

\* a handler's result written back
Commit(w) ==
  /\ ~w.stuck
  /\ elements' = w.elements
  /\ timers' = w.timers
  /\ mainloop' = w.mainloop
  /\ scanned' = w.scanned
  /\ exc' = w.exc

\* no message was received yet
NoMessage == [el |-> 0, calls |-> << >>]

Init ==
  /\ token = NoToken
  /\ have_token = FALSE
  /\ attached = FALSE
  /\ input_error = FALSE
  /\ node = "None"
  /\ mainloop = "None"
  /\ elements = << >>
  /\ timers = [t \in TimerIds |-> FreeTimer]
  /\ scanned = FALSE
  /\ attach_calls = << >>
  /\ join = "idle"
  /\ exc = "none"
  /\ user_input = << >>
  /\ processed = NoMessage

\* handlers dispatched by the GLib main loop run only while it runs
Running == mainloop = "running"

\* ------------------------------------------------------------------------
\* Inputs of the daemon's replies
\* ------------------------------------------------------------------------
\* the model list of one element entry: <<mod_id, config>> pairs
\* (the daemon reports a model's whole configuration on attach: its bindings
\* and subscriptions always, its publication period if it publishes)
AttachConfigs ==
  {c \in Configs : {"Bindings", "Subscriptions"} \subseteq DOMAIN c}

ModelConfigLists ==
  {<< >>} \cup {<< <<id, c>> >> : id \in ModelIds, c \in AttachConfigs}

ElementEntries == {<<b, ms>> : b \in ElementBytes, ms \in ModelConfigLists}

\* dict_array of an attach reply: at most MaxEls entries in ascending order
\* of element index, at most one of which carries model configurations
DictArrays ==
  UNION { { els \in [1..n -> ElementEntries] :
              /\ \A i, j \in 1..n : i < j => els[i][1] < els[j][1]
              /\ Cardinality({i \in 1..n : els[i][2] # << >>}) <= 1 } :
          n \in 0..MaxEls }

\* scan.txt as read while the array is applied
ScansForEls(els) ==
  IF \E i \in 1..Len(els) : \E k \in 1..Len(els[i][2]) :
       ScansFor(els[i][2][k][2]) = ScanOutcomes
    THEN ScanOutcomes
    ELSE {"empty"}

\* ------------------------------------------------------------------------
\* The main thread
\* ------------------------------------------------------------------------
\* main(): an optional token argument, the element with its vendor model,
\* then the Join call and mainloop.run()
main ==
  /\ mainloop = "None"
  /\ \E argv \in {<< >>} \cup {<<s>> : s \in TokenStrings} :
     \E agent \in BOOLEAN :
     \E g \in (IF argv = << >> THEN {Globals} ELSE set_token(Globals, argv[1])) :
       /\ token' = g.token
       /\ have_token' = g.have_token
       /\ input_error' = g.input_error
       /\ exc' = g.exc
       /\ IF g.exc # "none"
            THEN /\ mainloop' = "exited"
                 /\ UNCHANGED <<elements, join>>
            ELSE /\ elements' = add_element(<< >>,
                                  add_model(Element_init(0), MyVendor_init(1)))
                 /\ mainloop' = IF agent THEN "running" ELSE "exited"
                 /\ join' = IF agent THEN "called" ELSE join
  /\ UNCHANGED <<user_input, processed>>
  /\ UNCHANGED <<attached, node, timers, scanned, attach_calls>>

\* menu operation "token": set_token on the operator's input
set_token_cmd ==
  /\ Running
  /\ \E str_value \in TokenStrings :
     \E g \in set_token(Globals, str_value) :
       /\ token' = g.token
       /\ have_token' = g.have_token
       /\ input_error' = g.input_error
       /\ exc' = g.exc
  /\ UNCHANGED <<user_input, processed>>
  /\ UNCHANGED <<attached, node, mainloop, elements, timers, scanned,
                 attach_calls, join>>

\* the operator types the argument of the menu operation "token"
token_input ==
  /\ Running
  /\ user_input = << >>
  /\ \E str_value \in TypedStrings : user_input' = <<str_value>>
  /\ UNCHANGED <<token, have_token, attached, input_error, node, mainloop,
                 elements, timers, scanned, attach_calls, join, exc,
                 processed>>

\* set_token on the string the operator typed
set_token_input ==
  /\ Running
  /\ user_input # << >>
  /\ \E g \in set_token(Globals, user_input[1]) :
       /\ token' = g.token
       /\ have_token' = g.have_token
       /\ input_error' = g.input_error
       /\ exc' = g.exc
  /\ user_input' = << >>
  /\ UNCHANGED <<attached, node, mainloop, elements, timers, scanned,
                 attach_calls, join, processed>>

\* attach(token): the asynchronous Attach call; a None token cannot be
\* marshalled as the 't' argument, so no call is made without one
attach ==
  /\ Running
  /\ token # NoToken
  /\ Len(attach_calls) < MaxInFlight
  /\ attach_calls' = Append(attach_calls, token)
  /\ exc' = "none"
  /\ UNCHANGED <<user_input, processed>>
  /\ UNCHANGED <<token, have_token, attached, input_error, node, mainloop,
                 elements, timers, scanned, join>>

RemoveAt(seq, i) == SubSeq(seq, 1, i - 1) \o SubSeq(seq, i + 1, Len(seq))

\* attach_app_cb(node_path, dict_array): the success reply of an Attach call
attach_app_cb ==
  /\ Running
  /\ \E i \in 1..Len(attach_calls) :
     \E els \in DictArrays :
     \E scan \in ScansForEls(els) :
       /\ attach_calls' = RemoveAt(attach_calls, i)
       /\ attached' = TRUE
       /\ node' = "node"
       /\ Commit(apply_els(World, els, scan))
  /\ UNCHANGED <<user_input, processed>>
  /\ UNCHANGED <<token, have_token, input_error, join>>

\* attach_app_error_cb(error): the failure reply of an Attach call
attach_app_error_cb ==
  /\ Running
  /\ \E i \in 1..Len(attach_calls) :
       attach_calls' = RemoveAt(attach_calls, i)
  /\ exc' = "none"
  /\ UNCHANGED <<user_input, processed>>
  /\ UNCHANGED <<token, have_token, attached, input_error, node, mainloop,
                 elements, timers, scanned, join>>

\* remove_node_cb(): the daemon confirms the removal of the node
remove_node_cb ==
  /\ Running
  /\ attached' = FALSE
  /\ have_token' = FALSE
  /\ exc' = "none"
  /\ UNCHANGED <<user_input, processed>>
  /\ UNCHANGED <<token, input_error, node, mainloop, elements, timers,
                 scanned, attach_calls, join>>

\* join_error_cb(reason): the Join call failed
join_error_cb ==
  /\ Running
  /\ join = "called"
  /\ join' = "idle"
  /\ exc' = "none"
  /\ UNCHANGED <<user_input, processed>>
  /\ UNCHANGED <<token, have_token, attached, input_error, node, mainloop,
                 elements, timers, scanned, attach_calls>>

\* Application.JoinComplete(value): the join that main asked for succeeded
\* (join_cb, the reply that the call was accepted, only prints)
JoinComplete ==
  /\ Running
  /\ join = "called"
  /\ \E value \in JoinTokens : token' = value
  /\ have_token' = TRUE
  /\ join' = "idle"
  /\ exc' = "none"
  /\ UNCHANGED <<user_input, processed>>
  /\ UNCHANGED <<attached, input_error, node, mainloop, elements, timers,
                 scanned, attach_calls>>

\* Application.JoinFailed(value)
JoinFailed ==
  /\ Running
  /\ join = "called"
  /\ join' = "idle"
  /\ exc' = "none"
  /\ UNCHANGED <<user_input, processed>>
  /\ UNCHANGED <<token, have_token, attached, input_error, node, mainloop,
                 elements, timers, scanned, attach_calls>>

\* app_exit(): menu operation "quit"
app_exit ==
  /\ Running
  /\ timers' = cancel_element_timers(timers, elements)
  /\ mainloop' = "quit"
  /\ exc' = "none"
  /\ UNCHANGED <<user_input, processed>>
  /\ UNCHANGED <<token, have_token, attached, input_error, node, elements,
                 scanned, attach_calls, join>>

\* interfaces_removed_cb(object_path, interfaces): mesh_net is the
\* dbus.Interface made in main, and subscripting it (mesh_net[2]) raises
\* TypeError before the comparison, so app_exit() is not reached
interfaces_removed_cb ==
  /\ Running
  /\ exc' = "TypeError"
  /\ UNCHANGED <<user_input, processed>>
  /\ UNCHANGED <<token, have_token, attached, input_error, node, mainloop,
                 elements, timers, scanned, attach_calls, join>>

\* Element.UpdateModelConfiguration(model_id, config)
UpdateModelConfiguration ==
  /\ Running
  /\ \E e \in 1..Len(elements) :
     \E model_id \in ModelIds :
     \E config \in Configs :
     \E scan \in ScansFor(config) :
       Commit(update_model_config(World, e, model_id, config, scan))
  /\ UNCHANGED <<user_input, processed>>
  /\ UNCHANGED <<token, have_token, attached, input_error, node,
                 attach_calls, join>>

\* Element.MessageReceived(source, key, dest, data) on element e
MessageReceived ==
  /\ Running
  /\ \E e \in 1..Len(elements) :
       processed' = [el |-> e,
                     calls |-> MessageReceived_loop(elements[e].models)]
  /\ exc' = "none"
  /\ UNCHANGED <<token, have_token, attached, input_error, node, mainloop,
                 elements, timers, scanned, attach_calls, join, user_input>>

\* ------------------------------------------------------------------------
\* An application that registers any elements and models before it runs
\* the main loop (main registers one element with one vendor model)
\* ------------------------------------------------------------------------
\* the number of models registered on the elements
RECURSIVE ModelCount(_)
ModelCount(els) ==
  IF els = << >> THEN 0 ELSE Len(Head(els).models) + ModelCount(Tail(els))

\* app.add_element(Element(bus, index))
Application_add_element ==
  /\ mainloop = "None"
  /\ Len(elements) < MaxRegistered
  /\ \E index \in ElementIndices :
       elements' = add_element(elements, Element_init(index))
  /\ UNCHANGED <<token, have_token, attached, input_error, node, mainloop,
                 timers, scanned, attach_calls, join, exc, user_input,
                 processed>>

\* element.add_model(model)
Element_add_model ==
  /\ mainloop = "None"
  /\ \E e \in 1..Len(elements) :
     \E model \in RegistryModels :
       /\ ModelCount(elements) < MaxModels
       /\ elements' = [elements EXCEPT ![e] = add_model(@, model)]
  /\ UNCHANGED <<token, have_token, attached, input_error, node, mainloop,
                 timers, scanned, attach_calls, join, exc, user_input,
                 processed>>

\* the Join call and mainloop.run()
mainloop_run ==
  /\ mainloop = "None"
  /\ elements # << >>
  /\ mainloop' = "running"
  /\ join' = "called"
  /\ UNCHANGED <<token, have_token, attached, input_error, node, elements,
                 timers, scanned, attach_calls, exc, user_input, processed>>

\* ------------------------------------------------------------------------
\* The threading.Timer threads: Timer.run, then ModTimer._timeout_cb line
\* by line.  They are not dispatched by the main loop and outlive it; an
\* exception ends the thread and is no exception of the main thread.
\* ------------------------------------------------------------------------
Owner(t) == ModelAt(World, timers[t].el, timers[t].mod)

\* Timer.run: the interval has passed and the Timer was not cancelled, so
\* self.function() = _timeout_cb is entered and calls self.func()
Timer_run ==
  /\ \E t \in TimerIds :
       /\ timers[t].pc = "wait"
       /\ timers' = [timers EXCEPT ![t].pc = "func"]
  /\ UNCHANGED <<user_input, processed>>
  /\ UNCHANGED <<token, have_token, attached, input_error, node, mainloop,
                 elements, scanned, attach_calls, join, exc>>

\* the exception MyVendor.publish / Model.send_publication ends with:
\* len() of the int state, or Publish looked up on a None node
publish_exc(model, n) ==
  IF model.state = "0" THEN "TypeError"
  ELSE IF n = "None" THEN "AttributeError"
  ELSE "none"

\* line 353, self.func(): publish runs to its end; an exception leaves
\* _timeout_cb and ends the thread
publish ==
  /\ \E t \in TimerIds :
       /\ timers[t].pc = "func"
       /\ timers' = IF publish_exc(Owner(t), node) = "none"
                      THEN [timers EXCEPT ![t].pc = "l354"]
                      ELSE [timers EXCEPT ![t] = FreeTimer]
  /\ UNCHANGED <<user_input, processed>>
  /\ UNCHANGED <<token, have_token, attached, input_error, node, mainloop,
                 elements, scanned, attach_calls, join, exc>>

\* line 354, self.busy = True
timeout_cb_set_busy ==
  /\ \E t \in TimerIds :
       /\ timers[t].pc = "l354"
       /\ timers' = [timers EXCEPT ![t].pc = "l355"]
       /\ elements' = [elements EXCEPT
            ![timers[t].el].models[timers[t].mod].pub_timer.busy = TRUE]
  /\ UNCHANGED <<user_input, processed>>
  /\ UNCHANGED <<token, have_token, attached, input_error, node, mainloop,
                 scanned, attach_calls, join, exc>>

\* line 355, self._schedule_timer()
timeout_cb_schedule ==
  /\ \E t \in TimerIds :
       /\ timers[t].pc = "l355"
       /\ LET w == ModTimer_schedule_timer(
                     [World EXCEPT !.timers[t].pc = "l356"],
                     timers[t].el, timers[t].mod)
          IN  /\ ~w.stuck
              /\ elements' = w.elements
              /\ timers' = w.timers
  /\ UNCHANGED <<user_input, processed>>
  /\ UNCHANGED <<token, have_token, attached, input_error, node, mainloop,
                 scanned, attach_calls, join, exc>>

\* line 356, self.busy = False, and the thread ends
timeout_cb_clear_busy ==
  /\ \E t \in TimerIds :
       /\ timers[t].pc = "l356"
       /\ timers' = [timers EXCEPT ![t] = FreeTimer]
       /\ elements' = [elements EXCEPT
            ![timers[t].el].models[timers[t].mod].pub_timer.busy = FALSE]
  /\ UNCHANGED <<user_input, processed>>
  /\ UNCHANGED <<token, have_token, attached, input_error, node, mainloop,
                 scanned, attach_calls, join, exc>>

\* ------------------------------------------------------------------------
\* Specification
\* ------------------------------------------------------------------------
Next ==
  \/ main
  \/ set_token_cmd
  \/ attach
  \/ attach_app_cb
  \/ attach_app_error_cb
  \/ remove_node_cb
  \/ join_error_cb
  \/ JoinComplete
  \/ JoinFailed
  \/ app_exit
  \/ interfaces_removed_cb
  \/ UpdateModelConfiguration
  \/ Timer_run
  \/ publish
  \/ timeout_cb_set_busy
  \/ timeout_cb_schedule
  \/ timeout_cb_clear_busy

Spec == Init /\ [][Next]_vars

\* The token and its calls alone, with set_token on every string of
\* TypedStrings: no attach reply is delivered, so no configuration is
\* applied and no Timer exists.
NextToken ==
  \/ main
  \/ token_input
  \/ set_token_input
  \/ attach
  \/ attach_app_error_cb
  \/ remove_node_cb
  \/ join_error_cb
  \/ JoinComplete
  \/ JoinFailed

SpecToken == Init /\ [][NextToken]_vars

\* The registry: any elements and models are registered, then messages and
\* configuration updates are delivered to them.  No Timer thread runs.
NextRegistry ==
  \/ Application_add_element
  \/ Element_add_model
  \/ mainloop_run
  \/ MessageReceived
  \/ UpdateModelConfiguration

SpecRegistry == Init /\ [][NextRegistry]_vars

\* ------------------------------------------------------------------------
\* Vocabulary of the properties
\* ------------------------------------------------------------------------
\* the positions <<e, m>> of the models that own a ModTimer
VendorModels ==
  UNION { { <<e, m>> : m \in {k \in 1..Len(elements[e].models) :
                                 elements[e].models[k].cls = "MyVendor"} } :
          e \in 1..Len(elements) }

\* the Timer objects of model <<e, m>> in ts that are at one of the pcs
TimersAt(ts, e, m, pcs) ==
  {t \in TimerIds : ts[t].el = e /\ ts[t].mod = m /\ ts[t].pc \in pcs}

\* armed: started and waiting for its interval
Armed(ts, e, m) == TimersAt(ts, e, m, {"wait"})

\* a tick of the model is between its wake-up and its end
InTick(ts, e, m) == TimersAt(ts, e, m, {"func", "l354", "l355", "l356"})

\* the node was removed: a token was set and remove_node_cb invalidated it
Removed == token # NoToken /\ ~have_token

\* this step delivers the reply of an Attach call
AttachReply == Len(attach_calls') < Len(attach_calls)

\* this step is a tick of Timer t entering its callback: publish is called
PublishCalled(t) == timers[t].pc = "wait" /\ timers'[t].pc = "func"

\* the positions <<e, m>> of all models
AllModels ==
  UNION { { <<e, m>> : m \in 1..Len(elements[e].models) } :
          e \in 1..Len(elements) }

\* model m is the first model of element e with its model id
FirstWithId(e, m) ==
  \A k \in 1..(m - 1) :
    elements[e].models[k].model_id # elements[e].models[m].model_id

\* the attach replies that carry configuration c for model m of element e
RepliesFor(e, m, c) ==
  {els \in DictArrays :
     \E i \in 1..Len(els) :
       /\ unpack_b(els[i][1]) = elements[e].index
       /\ els[i][2] = << <<elements[e].models[m].model_id, c>> >>}

\* what a configuration update that carries c for model m of element e
\* makes of the current state when scan.txt reads as scan: the call of
\* UpdateModelConfiguration, and every attach reply that carries c and is
\* applied to its end
ConfigUpdates(e, m, c, scan) ==
  {w \in {update_model_config(World, e, elements[e].models[m].model_id,
                              c, scan)} \cup
         {apply_els(World, els, scan) : els \in RepliesFor(e, m, c)} :
     ~w.stuck /\ w.exc # "AttributeError"}

\* configurations that carry Bindings and a nonzero PublicationPeriod
PublishingConfigs ==
  {c \in Configs : /\ {"Bindings", "PublicationPeriod"} \subseteq DOMAIN c
                   /\ c["PublicationPeriod"] # 0}

\* in w a Timer of model <<e, m>> is armed with an interval of period ms
ArmedFor(w, e, m, period) ==
  \E t \in TimerIds :
    /\ w.timers[t].pc = "wait"
    /\ w.timers[t].el = e /\ w.timers[t].mod = m
    /\ w.timers[t].interval * 1000 = period

\* this step is JoinComplete storing a token
JoinCompleted ==
  /\ join = "called" /\ join' = "idle"
  /\ have_token'
  /\ (token' # token \/ ~have_token)

\* this step is set_token on the typed string s
SetTokenOn(s) == user_input = <<s>> /\ user_input' = << >>

\* the string has a character that is no hex digit
NonHex(s) == \E i \in 1..Len(s) : s[i] \notin HexChars

\* ------------------------------------------------------------------------
\* Properties
\* ------------------------------------------------------------------------

\* C1: when the node is Removed and the only Attach calls outstanding are
\* for the removed token, the delivery of their reply causes no transition:
\* attached and have_token stay false and no element or model
\* configuration (and no timer) changes.
C1_StaleAttachReplyIgnored ==
  [][ ( /\ Removed
        /\ attach_calls # << >>
        /\ \A i \in 1..Len(attach_calls) : attach_calls[i] = token
        /\ AttachReply )
      => ( /\ ~attached' /\ ~have_token'
           /\ elements' = elements /\ timers' = timers ) ]_vars

\* C2: with exactly one Timer of a ModTimer armed and no tick of it in
\* progress, no step (in particular no second start()) leaves more than one
\* Timer of that ModTimer armed.
C2_OneTimerAfterDoubleStart ==
  [][ \A em \in VendorModels :
        ( /\ Cardinality(Armed(timers, em[1], em[2])) = 1
          /\ InTick(timers, em[1], em[2]) = {} )
        => Cardinality(Armed(timers', em[1], em[2])) <= 1 ]_vars

\* C3: while a model's publication period is 0 (set_publication(0) has
\* returned and no nonzero period was configured since), no tick of that
\* model enters its callback, i.e. publish is not called again.
C3_NoPublishAfterPeriodZero ==
  [][ \A t \in TimerIds :
        PublishCalled(t) => Owner(t).pub_period # 0 ]_vars

\* C4: once the main loop has been told to quit (app_exit, or the vendor
\* model's mainloop.quit()), no publication Timer is armed or ticking.
C4_NoTimerAfterQuit ==
  mainloop = "quit" => \A t \in TimerIds : timers[t].pc = "free"

\* C5: delivering an attach reply never ends in the AttributeError of an
\* element index that matches no registered Element.
C5_UnknownElementDoesNotRaise ==
  [][ AttachReply => exc' # "AttributeError" ]_vars

\* C6: the step that confirms a removal (have_token falls) leaves
\* have_token false, attached false and no publication Timer armed.
C6_RemoveCancelsTimers ==
  [][ (have_token /\ ~have_token')
      => ( /\ ~attached'
           /\ \A t \in TimerIds : timers'[t].pc # "wait" ) ]_vars

\* C7: in every reachable state attached implies have_token.
C7_AttachedImpliesToken == attached => have_token

\* C8: a model never has two publish callbacks executing at the same time.
C8_OneCallbackInFlight ==
  \A em \in VendorModels :
    Cardinality(TimersAt(timers, em[1], em[2], {"func"})) <= 1

\* C9: when the callback of a tick raises, the schedule is not lost: after
\* that step a Timer of the ModTimer is armed again, or the ModTimer is
\* cancelled (its thread is None).
C9_RaisingCallbackKeepsSchedule ==
  [][ \A t \in TimerIds :
        (timers[t].pc = "func" /\ timers'[t].pc = "free")
        => LET e == timers[t].el
               m == timers[t].mod
           IN  \/ Armed(timers', e, m) # {}
               \/ elements'[e].models[m].pub_timer.thread = NoThread ]_vars

\* C10: a token that is held is not replaced: a step from a state with
\* have_token to a state with have_token leaves token unchanged.
C10_HeldTokenImmutable ==
  [][ (have_token /\ have_token') => token' = token ]_vars

C12_JoinCompleteAttaches ==
  [][ JoinCompleted
      => \E i \in 1..Len(attach_calls') : attach_calls'[i] = token' ]_vars

\* C13: set_token on a string whose length is not 16, with no token held,
\* sets input_error, leaves token and have_token (false) as they were,
\* raises nothing and makes no call to the daemon: no Attach call is added
\* and the Join call is as before.
C13_WrongLengthRejected ==
  [][ \A s \in TypedStrings :
        (SetTokenOn(s) /\ Len(s) # TokenLen /\ ~have_token)
        => ( /\ input_error'
             /\ token' = token
             /\ ~have_token'
             /\ exc' = "none"
             /\ attach_calls' = attach_calls
             /\ join' = join ) ]_vars

\* C13 witness: a string of wrong length was typed and given to set_token
\* while no token was ever set: the error is flagged and no token is held.
C13_Witness ==
  /\ mainloop = "running"
  /\ user_input = << >>
  /\ input_error
  /\ token = NoToken
  /\ ~have_token

\* C14: set_token on a string of 16 characters one of which is no hex
\* digit rejects it: input_error is set, token and have_token stay as they
\* were.
C14_NonHexRejected ==
  [][ \A s \in TypedStrings :
        (SetTokenOn(s) /\ Len(s) = TokenLen /\ NonHex(s))
        => ( /\ input_error'
             /\ token' = token
             /\ have_token' = have_token ) ]_vars

\* C15: the last MessageReceived called process_message once on each model
\* of its element, in the order in which the models were registered.
C15_EveryModelReceives ==
  processed.el # 0
  => processed.calls =
       [k \in 1..Len(elements[processed.el].models) |-> k]

\* C15 witness: a message was delivered to an element with two models and
\* both received it, the first registered first.
C15_Witness ==
  /\ processed.el # 0
  /\ Len(elements[processed.el].models) = 2
  /\ processed.calls = <<1, 2>>

\* C16: no two registered elements have the same index.
C16_UniqueIndices ==
  \A i, j \in 1..Len(elements) :
    i # j => elements[i].index # elements[j].index

C18_FirstMatchOnly ==
  \A e \in 1..Len(elements) : \A model_id \in ModelIds :
  \A c \in Configs : \A scan \in ScansFor(c) :
    LET w == update_model_config(World, e, model_id, c, scan)
        hits == {m \in 1..Len(elements[e].models) :
                   elements[e].models[m].model_id = model_id}
    IN  ~w.stuck
        => /\ hits = {} => w = World
           /\ \A m \in hits :
                (\A k \in hits : m <= k)
                => /\ \A em \in AllModels \ {<<e, m>>} :
                        ModelAt(w, em[1], em[2]) = ModelAt(World, em[1], em[2])
                   /\ "Bindings" \in DOMAIN c
                        => ModelAt(w, e, m).bindings = c["Bindings"]
                   /\ "PublicationPeriod" \in DOMAIN c
                        => ModelAt(w, e, m).pub_period = c["PublicationPeriod"]

\* C18 witness: on an element with two models of the same id and different
\* vendors the first holds the bindings of an update and the second is
\* still as registered.
C18_Witness ==
  /\ mainloop = "running"
  /\ \E e \in 1..Len(elements) :
       /\ Len(elements[e].models) = 2
       /\ elements[e].models[1].model_id = elements[e].models[2].model_id
       /\ elements[e].models[1].vendor # elements[e].models[2].vendor
       /\ elements[e].models[1].bindings = <<0>>
       /\ elements[e].models[2] \in RegistryModels

\* C19: line 355 of a tick arms exactly one more Timer of its ModTimer, with
\* the interval of the Timer that ticks; and while the ModTimer is not
\* cancelled (its thread is not None) and the callback returns normally, a
\* tick enters the callback only when no earlier call of the callback of
\* that ModTimer is still running.
C19_TickRearmsAfterCallback ==
  [][ \A t \in TimerIds :
        LET e == timers[t].el
            m == timers[t].mod
        IN  /\ (timers[t].pc = "l355" /\ timers'[t].pc = "l356")
                => \E n \in TimerIds \ Armed(timers, e, m) :
                     /\ Armed(timers', e, m) = Armed(timers, e, m) \cup {n}
                     /\ timers'[n].interval = timers[t].interval
            /\ ( /\ PublishCalled(t)
                  /\ Owner(t).pub_timer.thread # NoThread
                  /\ publish_exc(Owner(t), node) = "none" )
                => TimersAt(timers, e, m, {"func"}) = {} ]_vars

\* C20: a step that sets the pub_period of a vendor model to a new value p
\* with 0 < p < 1000 changes nothing else of the publication: every Timer,
\* the ModTimer (thread, seconds, func, busy), the state, the main loop
\* and scanned are as before, so a Timer armed earlier stays armed with
\* its old interval and without one none is armed.
C20_SubSecondPeriodOnlyStored ==
  [][ \A em \in VendorModels :
        LET old == elements[em[1]].models[em[2]]
            new == elements'[em[1]].models[em[2]]
        IN  (new.pub_period # old.pub_period
               /\ new.pub_period > 0 /\ new.pub_period < 1000)
            => ( /\ timers' = timers
                 /\ new = [old EXCEPT !.pub_period = new.pub_period,
                                       !.bindings = new.bindings]
                 /\ mainloop' = mainloop
                 /\ scanned' = scanned ) ]_vars

\* C20 witness: the vendor model holds a period of 500 ms while the Timer
\* armed for an earlier period of 2000 ms is still armed with 2 seconds.
C20_Witness ==
  \E em \in VendorModels :
    LET model == elements[em[1]].models[em[2]] IN
      /\ model.pub_period = 500
      /\ model.pub_timer.thread # NoThread
      /\ model.pub_timer.seconds = 2
      /\ timers[model.pub_timer.thread].pc = "wait"
      /\ timers[model.pub_timer.thread].interval = 2

====
